---- MODULE Spec2Model ----
(***************************************************************************)
(* Model of render.py: the didactic spirogram renderer.                    *)
(*                                                                         *)
(* Numbers.  The script computes in binary floating point; the model       *)
(* computes in exact rational arithmetic.  A time or a progress is a       *)
(* fraction [num, den] (den > 0).  A volume is a mixed number [w, n, d]    *)
(* standing for w + n/d mL with 0 <= n < d in lowest terms, so that two    *)
(* volumes are equal exactly when their records are equal, and so that no  *)
(* intermediate product leaves the 32-bit integers of the model checker.   *)
(*                                                                         *)
(* Cosine.  np.cos has no closed rational form.  cos_turns models it by    *)
(* the quadrant symmetries of the cosine and Bhaskara's rational           *)
(* approximation on the first quadrant, which is exact at every multiple   *)
(* of a quarter turn and at a sixth of a turn, stays within [-1, 1], and   *)
(* differs from the cosine by less than 0.002 elsewhere.                   *)
(***************************************************************************)
EXTENDS Integers, Sequences, FiniteSets

VARIABLES pc, writer, frames, i, tau, ph, t_prog_len, v_now, probe, cfg

vars == <<pc, writer, frames, i, tau, ph, t_prog_len, v_now, probe, cfg>>

-----------------------------------------------------------------------------
(* Exact arithmetic                                                        *)

Abs(a) == IF a < 0 THEN -a ELSE a

RECURSIVE GCD(_, _)
GCD(a, b) == IF b = 0 THEN a ELSE GCD(b, a % b)

\* The fraction n/d (d > 0) in lowest terms.
Frac(n, d) ==
    LET g == GCD(Abs(n), d) IN [num |-> n \div g, den |-> d \div g]

\* The volume w + n/d (0 <= n < d) with its fraction in lowest terms.
Mixed(w, n, d) ==
    LET g == GCD(n, d) IN [w |-> w, n |-> n \div g, d |-> d \div g]

Whole(w) == [w |-> w, n |-> 0, d |-> 1]

\* <<quotient, remainder>> of a*n by d for a >= 0 and 0 <= n <= d, by binary
\* long multiplication: a*n itself is never formed.
RECURSIVE MulDiv(_, _, _)
MulDiv(a, n, d) ==
    IF a = 0 THEN <<0, 0>>
    ELSE LET h == MulDiv(a \div 2, n, d)
             r == 2 * h[2] + (a % 2) * n
         IN  <<2 * h[1] + r \div d, r % d>>

\* base + c * n/d as a volume, for integers base and c and 0 <= n <= d.
AddScaled(base, c, n, d) ==
    LET m == MulDiv(Abs(c), n, d)
    IN  IF c >= 0 THEN Mixed(base + m[1], m[2], d)
        ELSE IF m[2] = 0 THEN Whole(base - m[1])
        ELSE Mixed(base - m[1] - 1, d - m[2], d)

\* Order on volumes.
VLeq(a, b) == \/ a.w < b.w
              \/ a.w = b.w /\ a.n * b.d <= b.n * a.d

\* Order on fractions.
FLeq(a, b) == a.num * b.den <= b.num * a.den

-----------------------------------------------------------------------------
(* Video settings, volumes and timing                                      *)

FPS == 20
DURATION_S == 60

TLC == 6000
RV == 1200
ERV == 1100
VT == 500

Max(a, b) == IF a >= b THEN a ELSE b

\* The derived constants of a parameterization, as the startup code computes
\* them; IRV is clamped at zero.
Derived(tlc, rv, erv, vt) ==
    LET frc == rv + erv
    IN  [TLC |-> tlc, RV |-> rv, ERV |-> erv, VT |-> vt,
         FRC |-> frc,
         IRV |-> Max(tlc - (frc + vt), 0),
         IC  |-> tlc - frc,
         VC  |-> tlc - rv]

FRC == Derived(TLC, RV, ERV, VT).FRC

T_TIDAL_1 == 12
T_HOLD_1 == 1
T_FEXP == 6
T_HOLD_2 == 1
T_FINS == 6
T_HOLD_3 == 1
T_TIDAL_2 == 3

T_CYCLE == T_TIDAL_1 + T_HOLD_1 + T_FEXP + T_HOLD_2 + T_FINS + T_HOLD_3 + T_TIDAL_2

\* Faulty variant: forced expiration stops at the resting level.
FEXP_TARGET_resting == FRC

FEXP_TARGET == RV

\* Faulty variant: forced inspiration overshoots the total capacity by a tidal volume.
FINS_TARGET_overshoot == TLC + VT

FINS_TARGET == TLC

-----------------------------------------------------------------------------
(* The waveform model                                                      *)

\* np.clip(x, 0.0, 1.0)
Clip01(x) == IF x.num < 0 THEN Frac(0, 1)
             ELSE IF x.num > x.den THEN Frac(1, 1)
             ELSE x

\* Faulty variant: ease-in, x^2 (slow first, fast at the end).
ease_in_slow_then_fast(x) ==
    LET c == Clip01(x) IN Frac(c.num * c.num, c.den * c.den)

\* 1 - (1 - x)^2 on the clipped progress.
ease_out_fast_then_slow(x) ==
    LET c == Clip01(x)
    IN  Frac(c.den * c.den - (c.den - c.num) * (c.den - c.num), c.den * c.den)

\* The duration floor of the progress computation, 1e-9 s, is 1/FloorDen.
FloorDen == 1000000000

\* max(T, 1e-9) for a duration T given in whole seconds.
MaxDur(T) == IF T > 0 THEN Frac(T, 1) ELSE Frac(1, FloorDen)

\* (tt - start) / max(T, 1e-9)
Progress(tt, start, T) ==
    LET m == MaxDur(T)
    IN  Frac((tt.num - start * tt.den) * m.den, tt.den * m.num)

\* Faulty variant: tt <= s, a boundary time given to the phase that ends there.
BeforeOrAt(tt, s) == tt.num <= s * tt.den

\* tt < s for a time tt and a whole number of seconds s.
Before(tt, s) == tt.num < s * tt.den

phase_in_cycle(tt) ==
    LET a == T_TIDAL_1
        b == a + T_HOLD_1
        c == b + T_FEXP
        d == c + T_HOLD_2
        e == d + T_FINS
        f == e + T_HOLD_3
    IN  IF Before(tt, a) THEN [ph |-> "tidal1", x |-> Progress(tt, 0, T_TIDAL_1)]
        ELSE IF Before(tt, b) THEN [ph |-> "hold1", x |-> Progress(tt, a, T_HOLD_1)]
        ELSE IF Before(tt, c) THEN [ph |-> "fexp", x |-> Progress(tt, b, T_FEXP)]
        ELSE IF Before(tt, d) THEN [ph |-> "hold2", x |-> Progress(tt, c, T_HOLD_2)]
        ELSE IF Before(tt, e) THEN [ph |-> "fins", x |-> Progress(tt, d, T_FINS)]
        ELSE IF Before(tt, f) THEN [ph |-> "hold3", x |-> Progress(tt, e, T_HOLD_3)]
        ELSE [ph |-> "tidal2", x |-> Progress(tt, f, T_TIDAL_2)]

\* The cosine of u turns (of the angle 2*pi*u), as a fraction in [-1, 1].
cos_turns(u) ==
    LET r == u.num % u.den
        q == u.den
        \* first-quadrant law on |v| <= 1/4 turn, v = p/s
        quad(p, s) == [num |-> s * s - 16 * p * p, den |-> s * s + 4 * p * p]
        neg(k) == [num |-> -k.num, den |-> k.den]
    IN  IF 4 * r <= q THEN quad(r, q)
        ELSE IF 4 * r < 3 * q THEN neg(quad(2 * r - q, 2 * q))
        ELSE quad(q - r, q)

\* Faulty variant: the breath swings below FRC, into the expiratory reserve.
tidal_volume_down(xlocal, breaths) ==
    LET k == cos_turns(Frac(breaths * xlocal.num, xlocal.den))
    IN  AddScaled(FRC, -VT, k.den - k.num, 2 * k.den)

\* FRC + (VT/2) * (1 - cos(2*pi*breaths*xlocal))
tidal_volume(xlocal, breaths) ==
    LET k == cos_turns(Frac(breaths * xlocal.num, xlocal.den))
    IN  AddScaled(FRC, VT, k.den - k.num, 2 * k.den)

\* The volume law of phase p at progress x: the branches of volume_of_tau.
phase_volume(p, x) ==
    IF p = "tidal1" THEN tidal_volume(x, 3)
    ELSE IF p = "hold1" THEN Whole(FRC)
    ELSE IF p = "fexp" THEN
        LET v0 == FRC + VT
            k == ease_out_fast_then_slow(x)
        IN  AddScaled(v0, FEXP_TARGET - v0, k.num, k.den)
    ELSE IF p = "hold2" THEN Whole(FEXP_TARGET)
    ELSE IF p = "fins" THEN
        LET v0 == FEXP_TARGET
            k == ease_out_fast_then_slow(x)
        IN  AddScaled(v0, FINS_TARGET - v0, k.num, k.den)
    ELSE IF p = "hold3" THEN Whole(FINS_TARGET)
    ELSE IF p = "tidal2" THEN
        IF 2 * x.num < x.den THEN
            LET k == ease_out_fast_then_slow(Frac(2 * x.num, x.den))
            IN  AddScaled(TLC, FRC - TLC, k.num, k.den)
        ELSE tidal_volume(Frac(2 * x.num - x.den, x.den), 1)
    ELSE Whole(FRC)

volume_of_tau(tt) ==
    LET r == phase_in_cycle(tt) IN phase_volume(r.ph, r.x)

-----------------------------------------------------------------------------
(* The precomputed cycle curve                                             *)

N_CURVE == 2400

\* np.linspace(0.0, T_CYCLE, N_CURVE)[j], for j in 0 .. N_CURVE-1.
t_curve(j) == [num |-> j * T_CYCLE, den |-> N_CURVE - 1]

\* v_curve[j] = volume_of_tau(t_curve[j])
v_curve(j) == volume_of_tau(t_curve(j))

\* Faulty variant: the mask compares strictly, t_curve < tt.
Mask_strict(tt) == {j \in 0 .. N_CURVE - 1 : ~FLeq(tt, t_curve(j))}

\* The indices selected by  mask = t_curve <= tt.
Mask(tt) == {j \in 0 .. N_CURVE - 1 : FLeq(t_curve(j), tt)}

-----------------------------------------------------------------------------
(* The script, top to bottom                                               *)

total_frames == DURATION_S * FPS

\* Faulty variant: the loop index advances by two, skipping every other frame.
range_next_skip(k) == k + 2

\* The index that follows k in  for i in range(total_frames).
range_next(k) == k + 1

\* t = i / FPS
FrameTime(k) == [num |-> k, den |-> FPS]

\* tau = t % T_CYCLE
CycleTime(t) == [num |-> t.num % (T_CYCLE * t.den), den |-> t.den]

NoVolume == Whole(-1)
NoProbe == [kind |-> "none"]
Configured == Derived(TLC, RV, ERV, VT)

\* The state once the constants, the model functions and the cycle curve are
\* defined, before the figure and the writer are created.  The curve itself is
\* a constant of the run from here on (v_curve above); the loop reads it only
\* to count and to plot the points selected by the mask.
Init ==
    /\ pc = "open"
    /\ writer = "none"
    /\ frames = <<>>
    /\ i = 0
    /\ tau = FrameTime(0)
    /\ ph = "none"
    /\ t_prog_len = 0
    /\ v_now = NoVolume
    /\ probe = NoProbe
    /\ cfg = Configured

\* writer = imageio.get_writer(...)
OpenWriter ==
    /\ pc = "open"
    /\ writer' = "open"
    /\ pc' = "loop"
    /\ UNCHANGED <<frames, i, tau, ph, t_prog_len, v_now, probe, cfg>>

\* get_writer raises (unsupported codec, unwritable path): the run aborts
\* with no writer.
OpenFails ==
    /\ pc = "open"
    /\ pc' = "aborted"
    /\ UNCHANGED <<writer, frames, i, tau, ph, t_prog_len, v_now, probe, cfg>>

\* The head of an iteration of  for i in range(total_frames)  and the model
\* evaluation of the frame: t, tau, ph, the progress mask and v_now.
FrameCompute ==
    /\ pc = "loop"
    /\ i < total_frames
    /\ LET cur == CycleTime(FrameTime(i))
       IN  /\ tau' = cur
           /\ ph' = phase_in_cycle(cur).ph
           /\ t_prog_len' = Cardinality(Mask(cur))
           /\ v_now' = volume_of_tau(cur)
    /\ pc' = "draw"
    /\ UNCHANGED <<writer, frames, i, probe, cfg>>

\* fig.clf() ... fig.tight_layout(), canvas_to_rgb(fig)
FrameDraw ==
    /\ pc = "draw"
    /\ pc' = "append"
    /\ UNCHANGED <<writer, frames, i, tau, ph, t_prog_len, v_now, probe, cfg>>

\* writer.append_data(...), then the next index.
FrameAppend ==
    /\ pc = "append"
    /\ writer = "open"
    /\ frames' = Append(frames, i)
    /\ i' = range_next(i)
    /\ pc' = "loop"
    /\ UNCHANGED <<writer, tau, ph, t_prog_len, v_now, probe, cfg>>

\* An exception while a frame is computed, drawn or appended.  Nothing in the
\* script catches it: control leaves the loop and the script, and never
\* reaches writer.close().
FrameFails ==
    /\ pc \in {"loop", "draw", "append"}
    /\ i < total_frames
    /\ pc' = "aborted"
    /\ UNCHANGED <<writer, frames, i, tau, ph, t_prog_len, v_now, probe, cfg>>

\* The loop is exhausted: writer.close()
CloseWriter ==
    /\ pc = "loop"
    /\ i >= total_frames
    /\ writer' = "closed"
    /\ pc' = "done"
    /\ UNCHANGED <<frames, i, tau, ph, t_prog_len, v_now, probe, cfg>>

Next ==
    \/ OpenWriter
    \/ OpenFails
    \/ FrameCompute
    \/ FrameDraw
    \/ FrameAppend
    \/ FrameFails
    \/ CloseWriter

Spec == Init /\ [][Next]_vars

-----------------------------------------------------------------------------
(* The waveform model on its own: one evaluation per behaviour             *)

\* The phases in the order of the cycle.
Timeline == <<"tidal1", "hold1", "fexp", "hold2", "fins", "hold3", "tidal2">>

PhaseDur(p) ==
    IF p = "tidal1" THEN T_TIDAL_1
    ELSE IF p = "hold1" THEN T_HOLD_1
    ELSE IF p = "fexp" THEN T_FEXP
    ELSE IF p = "hold2" THEN T_HOLD_2
    ELSE IF p = "fins" THEN T_FINS
    ELSE IF p = "hold3" THEN T_HOLD_3
    ELSE T_TIDAL_2

\* The time at which the k-th phase of the cycle starts.
RECURSIVE PhaseStart(_)
PhaseStart(k) == IF k = 1 THEN 0 ELSE PhaseStart(k - 1) + PhaseDur(Timeline[k - 1])

MaxProgressDen == 12
MaxTimeDen == 4

\* Progress values in [0, 1].
ProgressInputs == UNION {{Frac(n, d) : n \in 0 .. d} : d \in 1 .. MaxProgressDen}

\* Times in [0, T_CYCLE).
TimeInputs == UNION {{[num |-> n, den |-> d] : n \in 0 .. T_CYCLE * d - 1} : d \in 1 .. MaxTimeDen}

One == Frac(1, 1)
Zero == Frac(0, 1)

LawInit ==
    /\ pc = "probe"
    /\ writer = "none"
    /\ frames = <<>>
    /\ i = 0
    /\ tau = FrameTime(0)
    /\ ph = "none"
    /\ t_prog_len = 0
    /\ v_now = NoVolume
    /\ probe = NoProbe
    /\ cfg = Configured

\* The law of one phase at two progress values.
ProbeLaw ==
    /\ pc = "probe" /\ probe = NoProbe
    /\ \E p \in {Timeline[k] : k \in 1 .. Len(Timeline)} :
       \E x \in ProgressInputs : \E y \in ProgressInputs :
          probe' = [kind |-> "law", ph |-> p, x |-> x, y |-> y,
                    vx |-> phase_volume(p, x), vy |-> phase_volume(p, y)]
    /\ UNCHANGED <<pc, writer, frames, i, tau, ph, t_prog_len, v_now, cfg>>

\* The two sides of the boundary between the k-th phase and the next: the
\* earlier phase at progress 1, and volume_of_tau at the boundary time.
ProbeBoundary ==
    /\ pc = "probe" /\ probe = NoProbe
    /\ \E k \in 1 .. Len(Timeline) - 1 :
          LET at == [num |-> PhaseStart(k + 1), den |-> 1]
              r == phase_in_cycle(at)
          IN  probe' = [kind |-> "boundary", from |-> Timeline[k], to |-> r.ph,
                        at |-> at, x |-> r.x,
                        v_end |-> phase_volume(Timeline[k], One),
                        v_start |-> volume_of_tau(at)]
    /\ UNCHANGED <<pc, writer, frames, i, tau, ph, t_prog_len, v_now, cfg>>

\* phase_in_cycle and volume_of_tau at one time of the cycle.
ProbeTime ==
    /\ pc = "probe" /\ probe = NoProbe
    /\ \E t \in TimeInputs :
          LET r == phase_in_cycle(t)
          IN  probe' = [kind |-> "time", t |-> t, ph |-> r.ph, x |-> r.x,
                        v |-> volume_of_tau(t)]
    /\ UNCHANGED <<pc, writer, frames, i, tau, ph, t_prog_len, v_now, cfg>>

\* v_now of one frame of the render loop: volume_of_tau(tau), tau = (k / FPS) % T_CYCLE.
ProbeFrame ==
    /\ pc = "probe" /\ probe = NoProbe
    /\ \E k \in 0 .. total_frames - 1 :
          LET t == CycleTime(FrameTime(k))
          IN  probe' = [kind |-> "frame", k |-> k, t |-> t, v |-> volume_of_tau(t)]
    /\ UNCHANGED <<pc, writer, frames, i, tau, ph, t_prog_len, v_now, cfg>>

\* One point of the precomputed curve.
ProbeCurve ==
    /\ pc = "probe" /\ probe = NoProbe
    /\ \E j \in 0 .. N_CURVE - 1 :
          probe' = [kind |-> "curve", j |-> j, t |-> t_curve(j), v |-> v_curve(j)]
    /\ UNCHANGED <<pc, writer, frames, i, tau, ph, t_prog_len, v_now, cfg>>

LawNext ==
    \/ ProbeLaw
    \/ ProbeBoundary
    \/ ProbeTime
    \/ ProbeFrame
    \/ ProbeCurve

LawSpec == LawInit /\ [][LawNext]_vars

-----------------------------------------------------------------------------
(* Startup under a parameterization of the base constants                  *)

MaxParam == 3
ParamStep == 500

ParamValues == {k * ParamStep : k \in 0 .. MaxParam}

ConfigInit ==
    /\ pc = "config"
    /\ writer = "none"
    /\ frames = <<>>
    /\ i = 0
    /\ tau = FrameTime(0)
    /\ ph = "none"
    /\ t_prog_len = 0
    /\ v_now = NoVolume
    /\ probe = NoProbe
    /\ \E a \in ParamValues : \E b \in ParamValues :
       \E c \in ParamValues : \E d \in ParamValues :
          cfg = [TLC |-> a, RV |-> b, ERV |-> c, VT |-> d]

\* Lines 29-34: the derived constants.
Startup ==
    /\ pc = "config"
    /\ cfg' = Derived(cfg.TLC, cfg.RV, cfg.ERV, cfg.VT)
    /\ pc' = "configured"
    /\ UNCHANGED <<writer, frames, i, tau, ph, t_prog_len, v_now, probe>>

ConfigNext == Startup

ConfigSpec == ConfigInit /\ [][ConfigNext]_vars

-----------------------------------------------------------------------------
(* Properties                                                              *)

LastPhase == Len(Timeline)

\* The k-th phase's interval [start, start + duration) contains the time t.
InPhase(t, k) ==
    /\ PhaseStart(k) * t.den <= t.num
    /\ t.num < (PhaseStart(k) + PhaseDur(Timeline[k])) * t.den

Holds == {"hold1", "hold2", "hold3"}

\* The active phase that precedes a hold.
Preceding(p) ==
    IF p = "hold1" THEN "tidal1" ELSE IF p = "hold2" THEN "fexp" ELSE "fins"

FramesPerCycle == FPS * T_CYCLE

\* C1: at every boundary between consecutive phases of the timeline, the
\* volume the earlier phase yields at progress 1 equals the volume
\* volume_of_tau yields at the boundary time (the later phase at progress 0).
C1_ContinuousAtBoundaries ==
    probe.kind = "boundary" => probe.x = Zero /\ probe.v_end = probe.v_start

\* C2: volume_of_tau yields a volume in [0, TLC] at every time of the cycle:
\* at every probed time in [0, T_CYCLE), at the cycle time of every frame of
\* the render loop, and at every point of the precomputed curve.
C2_VolumeInRange ==
    probe.kind \in {"time", "frame", "curve"} =>
        /\ VLeq(Whole(0), probe.v)
        /\ VLeq(probe.v, Whole(TLC))

\* The last point of forced inspiration on the curve, just below TLC.
C2_Witness ==
    /\ probe.kind = "curve"
    /\ phase_in_cycle(probe.t).ph = "fins"
    /\ probe.v.w = TLC - 1
    /\ probe.v.n > 0

\* C3: for every time t in [0, T_CYCLE), exactly one phase interval
\* [start, start + duration) contains t; phase_in_cycle returns that phase, a
\* boundary time going to the phase that starts there; the intervals run from
\* 0 to T_CYCLE; and the progress is (t - start) / duration, within [0, 1].
C3_Partition ==
    probe.kind = "time" =>
        LET t == probe.t
        IN  /\ Cardinality({k \in 1 .. LastPhase : InPhase(t, k)}) = 1
            /\ \A k \in 1 .. LastPhase : InPhase(t, k) <=> probe.ph = Timeline[k]
            /\ \A k \in 1 .. LastPhase :
                  InPhase(t, k) =>
                     probe.x.num * PhaseDur(Timeline[k]) * t.den
                        = (t.num - PhaseStart(k) * t.den) * probe.x.den
            /\ 0 <= probe.x.num /\ probe.x.num <= probe.x.den
            /\ PhaseStart(1) = 0
            /\ PhaseStart(LastPhase) + PhaseDur(Timeline[LastPhase]) = T_CYCLE

C3_Witness ==
    /\ probe.kind = "time"
    /\ probe.t = [num |-> T_TIDAL_1, den |-> 1]
    /\ probe.ph = "hold1"
    /\ probe.x = Zero

\* C4: a run that has opened the writer never ends, normally or by a
\* failure, with the writer still open.
C4_WriterClosedAtEnd ==
    (pc \in {"done", "aborted"} /\ writer # "none") => writer = "closed"

\* C5: the frames appended so far are the indices 0, 1, 2, ... in order,
\* none skipped or repeated; a run that completes has appended exactly
\* DURATION_S * FPS = 1200 of them and has closed the writer.
C5_FrameCount ==
    /\ \A k \in 1 .. Len(frames) : frames[k] = k - 1
    /\ Len(frames) <= DURATION_S * FPS
    /\ pc = "done" =>
          /\ Len(frames) = DURATION_S * FPS
          /\ Len(frames) = 1200
          /\ writer = "closed"

C5_Witness ==
    /\ pc = "done"
    /\ Len(frames) = 1200
    /\ frames[1200] = 1199

\* C6: when a frame is computed, the elapsed-progress trace is at least one
\* point long; it is no shorter than the trace of the frame before when both
\* frames lie in the same cycle, and it is back at its minimum, one point,
\* at a frame where the cycle time wraps to 0.
C6_TraceLength ==
    [][(pc = "loop" /\ pc' = "draw") =>
          /\ t_prog_len' >= 1
          /\ i % FramesPerCycle = 0 => tau'.num = 0 /\ t_prog_len' = 1
          /\ i % FramesPerCycle # 0 => t_prog_len' >= t_prog_len /\ tau'.num > 0]_vars

C6_Witness ==
    /\ pc = "draw"
    /\ i = FramesPerCycle
    /\ tau.num = 0
    /\ t_prog_len = 1

\* C7: in a hold phase the volume is the same at every progress and equals
\* the volume of the preceding active phase at progress 1; the hold after
\* forced expiration starts at exactly 1200 mL.
C7_HoldConstant ==
    /\ (probe.kind = "law" /\ probe.ph \in Holds) =>
          /\ probe.vx = probe.vy
          /\ probe.vx = phase_volume(Preceding(probe.ph), One)
    /\ (probe.kind = "boundary" /\ probe.to = "hold2") =>
          /\ probe.from = "fexp"
          /\ probe.x = Zero
          /\ probe.v_start = Whole(1200)

C7_Witness ==
    /\ probe.kind = "boundary"
    /\ probe.from = "fexp"
    /\ probe.to = "hold2"
    /\ probe.v_start = Whole(1200)
    /\ probe.v_end = Whole(1200)

\* C8: in a forced maneuver the volume at progress x = p/q is
\* start + (target - start) * (1 - (1 - x)^2), with start FRC + VT and target
\* RV for forced expiration, start RV and target TLC for forced inspiration;
\* it is the start at x = 0 and the target at x = 1, and between two progress
\* values x <= y it does not rise in forced expiration and does not fall in
\* forced inspiration.
C8_ForcedLaw ==
    (probe.kind = "law" /\ probe.ph \in {"fexp", "fins"}) =>
        LET fexp == probe.ph = "fexp"
            s == IF fexp THEN FRC + VT ELSE RV
            t == IF fexp THEN RV ELSE TLC
            p == probe.x.num
            q == probe.x.den
            v == probe.vx
        IN  /\ (v.w * v.d + v.n) * q * q
                  = v.d * (s * q * q + (t - s) * (2 * p * q - p * p))
            /\ probe.x = Zero => v = Whole(s)
            /\ probe.x = One => v = Whole(t)
            /\ FLeq(probe.x, probe.y) =>
                  IF fexp THEN VLeq(probe.vy, probe.vx)
                  ELSE VLeq(probe.vx, probe.vy)

C8_Witness ==
    /\ probe.kind = "law"
    /\ probe.ph = "fexp"
    /\ probe.x = Frac(1, 2)
    /\ probe.y = One
    /\ probe.vx = Whole(1600)
    /\ probe.vy = Whole(1200)

\* C9: after startup, for any parameterization of the base constants,
\* FRC = RV + ERV and 0 <= RV <= FRC <= FRC + VT <= TLC.
C9_ConfigInvariant ==
    pc = "configured" =>
        /\ cfg.FRC = cfg.RV + cfg.ERV
        /\ 0 <= cfg.RV
        /\ cfg.RV <= cfg.FRC
        /\ cfg.FRC <= cfg.FRC + cfg.VT
        /\ cfg.FRC + cfg.VT <= cfg.TLC

\* C10: quiet breathing with a whole number n of breaths (tidal1 with n = 3;
\* the second half of tidal2 with n = 1, whose own progress is 2x - 1) is at
\* FRC at progress 0 and 1, at FRC + VT at progress 0.5/n, and within
\* [FRC, FRC + VT] throughout.
C10_QuietBreathing ==
    /\ (probe.kind = "law" /\ probe.ph = "tidal1") =>
          /\ probe.x \in {Zero, One} => probe.vx = Whole(FRC)
          /\ probe.x = Frac(1, 2 * 3) => probe.vx = Whole(FRC + VT)
          /\ VLeq(Whole(FRC), probe.vx)
          /\ VLeq(probe.vx, Whole(FRC + VT))
    /\ (probe.kind = "law" /\ probe.ph = "tidal2" /\ FLeq(Frac(1, 2), probe.x)) =>
          /\ probe.x \in {Frac(1, 2), One} => probe.vx = Whole(FRC)
          /\ probe.x = Frac(3, 4) => probe.vx = Whole(FRC + VT)
          /\ VLeq(Whole(FRC), probe.vx)
          /\ VLeq(probe.vx, Whole(FRC + VT))

C10_Witness ==
    /\ probe.kind = "law"
    /\ probe.ph = "tidal1"
    /\ probe.x = Frac(1, 6)
    /\ probe.vx = Whole(2800)

====
